---- MODULE Spec2Model ----
(***************************************************************************)
(* Model of JumpAndWin (src/main.py): the main loop, the shop purchase,    *)
(* game_loop frame by frame, and end_of_day, over the users/scores tables  *)
(* and the process-wide daily pot, daily winner and owner balance.         *)
(*                                                                         *)
(* Units.  The source computes positions in floating point.  The model     *)
(* keeps them exact in integers: the player's y and vel_y in tenths of a   *)
(* pixel (GRAVITY 0.6 -> 6), an obstacle's x and speed in hundredths of a  *)
(* pixel (score*0.05 -> 5*score).  Where the double result differs from    *)
(* the exact one (the landing tie of a jump arc) the model follows the     *)
(* double; see FloatGE.                                                    *)
(***************************************************************************)
EXTENDS Integers, Sequences, FiniteSets, TLC

VARIABLES
    users,            \* table users: username -> row
    scores,           \* table scores, in insertion order
    daily_pot,        \* module global
    daily_winner,     \* module global: NoWinner or <<username, score>>
    owner_balance,    \* module global
    username,         \* main(): the logged-in player
    pc,               \* main(): "menu" (in main_menu), "game" (in game_loop's while), "crashed"
    result,           \* main(): what the last game_loop call returned
    user_data,        \* game_loop: the row read once at session start
    player,           \* game_loop: Player()
    shield_timer,     \* game_loop
    obstacles,        \* game_loop: list of Obstacle
    spawn_timer,      \* game_loop
    score,            \* game_loop
    game_over,        \* game_loop
    cheat_detected,   \* game_loop
    elapsed,          \* game_loop: pygame.time.get_ticks() - session_start, ms, last read
    tickMs,           \* environment: ms the clock advances per loop iteration
    events,           \* game_loop: what pygame.event.get() returned in its last iteration
    frame,            \* loop iterations of the running session
    spawned,          \* history: Obstacle() constructions of the running session
    idle,             \* loop iterations spent waiting in game over
    sessions,         \* sessions started by this process
    purchases         \* purchases made by this process

vars == <<users, scores, daily_pot, daily_winner, owner_balance, username, pc,
          result, user_data, player, shield_timer, obstacles, spawn_timer,
          score, game_over, cheat_detected, elapsed, tickMs, events, frame,
          spawned, idle, sessions, purchases>>

----------------------------------------------------------------------------
(* Program constants *)

WIDTH == 800
HEIGHT == 600
GRAVITY == 6
BASE_JUMP_POWER == -120
BASE_OBSTACLE_SPEED == 500
SPEED_PER_SCORE == 5
PLAY_COST == 10
DOUBLE_JUMP_COST == 5
SHIELD_COST == 15
PLAYER_SIZE == 50
PLAYER_X == 100
GROUND_MARGIN == 50
SHIELD_TICKS == 120
CHEAT_RATE == 5
SPAWN_BASE == 90
SPAWN_MIN == 60

\* y of the player's top edge when standing: HEIGHT - self.height - 50, in tenths
GroundY == (HEIGHT - PLAYER_SIZE - GROUND_MARGIN) * 10

----------------------------------------------------------------------------
(* Bounds of the model *)

MaxFrames == 350     \* simulated frames per session
KeyPeriod == 30      \* during a run, keys arrive on every KeyPeriod-th frame
MaxEvents == 2       \* key events delivered to one frame
MaxIdle == 1         \* frames the player lets pass in game over before a key
MaxSessions == 2     \* sessions one process starts
MaxPurchases == 1    \* purchases one process makes

\* Obstacle(): (width, height) drawn by random.randint(20, 50), randint(20, 70)
ObsSizes == { <<20, 20>>, <<50, 70>> }

\* ms per loop iteration seen by pygame.time.get_ticks(): 16 under the
\* clock.tick(60) governor, 1 under an externally accelerated loop
TickSteps == { 1, 16 }

Keys == { "SPACE", "X", "D" }

\* the rows of the users table, and the names login_screen is given
Users == { "ana", "bia", "caio" }
Logins == { "ana", "bia" }

\* the (score, elapsed ms) pairs the anti-cheat check is probed with
MaxProbeScore == 100
ProbeElapsed == { 0, 1, 199, 200, 201, 8000, 10000, 20000 }

RECURSIVE KeySeqsOfLen(_)
KeySeqsOfLen(n) ==
    IF n = 0 THEN { <<>> }
    ELSE { Append(s, k) : s \in KeySeqsOfLen(n - 1), k \in Keys }

KeySeqs == UNION { KeySeqsOfLen(n) : n \in 0..MaxEvents }

----------------------------------------------------------------------------
(* Values *)

NoWinner == <<>>

NewPlayer ==
    [ y |-> GroundY, vel_y |-> 0, on_ground |-> TRUE,
      jumps_available |-> 1, shield_active |-> FALSE ]

NoResult == [ kind |-> "none", n |-> 0 ]
Outcome(k, n) == [ kind |-> k, n |-> n ]

\* the rows the users table holds when the process starts; bia's and caio's
\* daily_score were stored by an earlier process that ended without a
\* settlement
InitUsers ==
    [ u \in Users |->
        IF u = "ana"
        THEN [ balance |-> 25, daily_score |-> 0, high_score |-> 0,
               shield |-> 0, double_jump |-> 0 ]
        ELSE IF u = "bia"
        THEN [ balance |-> 15, daily_score |-> 1, high_score |-> 1,
               shield |-> 2, double_jump |-> 0 ]
        ELSE [ balance |-> 40, daily_score |-> 3, high_score |-> 7,
               shield |-> 0, double_jump |-> 2 ] ]

Max(a, b) == IF a >= b THEN a ELSE b

----------------------------------------------------------------------------
(* Player *)

\* Jump with the airborne branch taken whatever the charge count
JumpAnywhere(p) ==
    IF p.on_ground
    THEN [ p EXCEPT !.vel_y = BASE_JUMP_POWER, !.on_ground = FALSE,
                    !.jumps_available = 0 ]
    ELSE [ p EXCEPT !.vel_y = (BASE_JUMP_POWER * 8) \div 10,
                    !.jumps_available = 0 ]

\* Jump with the ground jump leaving the extra jump available
JumpKeepsCharge(p) ==
    IF p.on_ground
    THEN [ p EXCEPT !.vel_y = BASE_JUMP_POWER, !.on_ground = FALSE ]
    ELSE IF p.jumps_available > 0
    THEN [ p EXCEPT !.vel_y = (BASE_JUMP_POWER * 8) \div 10,
                    !.jumps_available = p.jumps_available - 1 ]
    ELSE p

\* Player.jump
Jump(p) ==
    IF p.on_ground
    THEN [ p EXCEPT !.vel_y = BASE_JUMP_POWER, !.on_ground = FALSE,
                    !.jumps_available = 0 ]
    ELSE IF p.jumps_available > 0
    THEN [ p EXCEPT !.vel_y = (BASE_JUMP_POWER * 8) \div 10,
                    !.jumps_available = p.jumps_available - 1 ]
    ELSE p

\* The double comparison self.y >= bound on the accumulated y.  The sums of
\* multiples of 0.6 are exact in the model and rounded in the source; the two
\* comparisons differ only at a tie, and the one tie a run reaches is the 39th
\* tick of a jump arc, where the double sum is 499.99999999999994 and compares
\* below the line.  A tie therefore compares below.
FloatGE(y, bound) == y > bound

\* PlayerUpdate landing without clearing the velocity
PlayerUpdateKeepVelocity(p) ==
    LET v == p.vel_y + GRAVITY
        y == p.y + v
    IN  IF y > GroundY
        THEN [ p EXCEPT !.y = GroundY, !.vel_y = v, !.on_ground = TRUE,
                        !.jumps_available = 1 ]
        ELSE [ p EXCEPT !.y = y, !.vel_y = v ]

\* PlayerUpdate testing the landing on the position before the move
PlayerUpdateStaleTest(p) ==
    LET v == p.vel_y + GRAVITY
        y == p.y + v
    IN  IF p.y > GroundY
        THEN [ p EXCEPT !.y = GroundY, !.vel_y = 0, !.on_ground = TRUE,
                        !.jumps_available = 1 ]
        ELSE [ p EXCEPT !.y = y, !.vel_y = v ]

\* Player.update (the trail is presentation only)
PlayerUpdate(p) ==
    LET v == p.vel_y + GRAVITY
        y == p.y + v
    IN  IF FloatGE(y, GroundY)
        THEN [ p EXCEPT !.y = GroundY, !.vel_y = 0, !.on_ground = TRUE,
                        !.jumps_available = 1 ]
        ELSE [ p EXCEPT !.y = y, !.vel_y = v ]

\* int() of a non-negative or negative coordinate, as pygame.Rect stores it
Trunc(v, unit) == IF v >= 0 THEN v \div unit ELSE -((-v) \div unit)

\* player.rect after rect.topleft = (self.x, self.y): <<left, top, right, bottom>>
PlayerRect(p) ==
    LET top == IF ~p.on_ground /\ p.y = GroundY THEN Trunc(GroundY, 10) - 1
               ELSE Trunc(p.y, 10)
    IN  << PLAYER_X, top, PLAYER_X + PLAYER_SIZE, top + PLAYER_SIZE >>

----------------------------------------------------------------------------
(* Obstacles *)

\* Obstacle.__init__ with the drawn size
NewObstacle(sz) == [ x |-> WIDTH * 100, width |-> sz[1], height |-> sz[2] ]

\* Obstacle.update
ObstacleUpdate(o, speed) == [ o EXCEPT !.x = o.x - speed ]

\* obs.rect: <<left, top, right, bottom>>
ObstacleRect(o) ==
    LET left == Trunc(o.x, 100)
        top  == HEIGHT - o.height - GROUND_MARGIN
    IN  << left, top, left + o.width, top + o.height >>

\* pygame.Rect.colliderect on rectangles of positive size
CollideRect(a, b) ==
    /\ a[1] < b[3]
    /\ a[3] > b[1]
    /\ a[2] < b[4]
    /\ a[4] > b[2]

\* OffScreen deciding on the left edge alone
OffScreenLeftEdge(o) == o.x < 0

\* OffScreen one move late
OffScreenLate(o) == o.x + o.width * 100 < -BASE_OBSTACLE_SPEED

\* obs.x + obs.width < 0
OffScreen(o) == o.x + o.width * 100 < 0

\* current_speed = base_speed + score*0.05
CurrentSpeed(s) == BASE_OBSTACLE_SPEED + s * SPEED_PER_SCORE

\* SpawnThreshold lowered by one frame per point
SpawnThresholdPerPoint(s) == Max(SPAWN_MIN, SPAWN_BASE - s)

\* max(60, 90 - score // 2)
SpawnThreshold(s) == Max(SPAWN_MIN, SPAWN_BASE - (s \div 2))

----------------------------------------------------------------------------
(* Anti-cheat *)

\* CheatCheck with the threshold included: fires at exactly 5 points per second
CheatCheckInclusive(s, ms) == ms > 0 /\ s * 1000 >= CHEAT_RATE * ms

\* CheatCheck reading the elapsed milliseconds as microseconds
CheatCheckMicroseconds(s, ms) == ms > 0 /\ s * 1000 * 1000 > CHEAT_RATE * ms

\* elapsed_time > 0 and score / elapsed_time > 5, elapsed in ms
CheatCheck(s, ms) == ms > 0 /\ s * 1000 > CHEAT_RATE * ms

\* the anti-cheat block at the top of a loop iteration
AntiCheat(cd, go, s, ms) ==
    IF CheatCheck(s, ms)
    THEN [ cheat_detected |-> TRUE, game_over |-> TRUE ]
    ELSE [ cheat_detected |-> cd, game_over |-> go ]

----------------------------------------------------------------------------
(* Store and ledger *)

\* db_update_user: UPDATE users SET balance, daily_score, high_score, shield,
\* double_jump WHERE username
db_update_user(db, name, row) == [ db EXCEPT ![name] = row ]

\* db_save_score: INSERT INTO scores (username, score)
db_save_score(log, name, s) == Append(log, [ username |-> name, score |-> s ])

\* ResetDailyScores without the UPDATE
KeepDailyScores(db) == db

\* UPDATE users SET daily_score = 0
ResetDailyScores(db) == [ u \in DOMAIN db |-> [ db[u] EXCEPT !.daily_score = 0 ] ]

\* Reward paying the winner the whole pot
RewardWholePot(pot) == pot

\* reward = daily_pot // 2
Reward(pot) == pot \div 2

\* PayWinner with the owner credited the whole pot
PayWinnerOwnerKeepsPot(db, pot, winner, owner) ==
    LET found  == winner # NoWinner /\ winner[1] \in DOMAIN db
        reward == Reward(pot)
    IN  [ users |-> IF found
                    THEN db_update_user(db, winner[1],
                             [ db[winner[1]] EXCEPT !.balance = @ + reward ])
                    ELSE db,
          owner_balance |-> IF found THEN owner + pot ELSE owner ]

\* end_of_day, the block under "if daily_winner": the users table and the
\* owner balance after the payout
PayWinner(db, pot, winner, owner) ==
    LET found  == winner # NoWinner /\ winner[1] \in DOMAIN db
        reward == Reward(pot)
    IN  [ users |-> IF found
                    THEN db_update_user(db, winner[1],
                             [ db[winner[1]] EXCEPT !.balance = @ + reward ])
                    ELSE db,
          owner_balance |-> IF found THEN owner + (pot - reward) ELSE owner ]

\* end_of_day: the new users table, daily_pot, daily_winner and owner_balance
end_of_day(db, pot, winner, owner) ==
    LET paid == PayWinner(db, pot, winner, owner)
    IN  [ users |-> ResetDailyScores(paid.users), daily_pot |-> 0,
          daily_winner |-> NoWinner, owner_balance |-> paid.owner_balance ]

\* SaveHighScore without the comparison: the last score overwrites the record
SaveLastScore(db, name, n) ==
    db_update_user(db, name, [ db[name] EXCEPT !.high_score = n ])

\* main(): result > user_data["high_score"] on the row read back after
\* db_save_score, then db_update_user
SaveHighScore(db, name, n) ==
    IF n > db[name].high_score
    THEN db_update_user(db, name, [ db[name] EXCEPT !.high_score = n ])
    ELSE db

\* InsufficientFunds refusing only an empty balance
InsufficientFundsEmpty(row) == row.balance <= 0

\* game_loop: user_data["balance"] < PLAY_COST
InsufficientFunds(row) == row.balance < PLAY_COST

\* ChargeEntry with the debit waived
ChargeEntryWaived(row) == row

\* game_loop: user_data["balance"] -= PLAY_COST
ChargeEntry(row) == [ row EXCEPT !.balance = @ - PLAY_COST ]

\* PersistEntry deferred: the debit stays in memory
PersistEntryDeferred(db, name, row) == db

\* game_loop: db_update_user(user_data) right after the debit
PersistEntry(db, name, row) == db_update_user(db, name, row)

\* shop_items
Items == { "double_jump", "shield" }
Price(item) == IF item = "double_jump" THEN DOUBLE_JUMP_COST ELSE SHIELD_COST

\* Buy without the balance test
BuyOnCredit(row, item) ==
    IF item = "shield"
    THEN [ row EXCEPT !.balance = @ - Price(item), !.shield = @ + 1 ]
    ELSE [ row EXCEPT !.balance = @ - Price(item), !.double_jump = @ + 1 ]

\* shop_screen: the purchase of one item on the row read from the store
Buy(row, item) ==
    IF row.balance >= Price(item)
    THEN IF item = "shield"
         THEN [ row EXCEPT !.balance = @ - Price(item), !.shield = @ + 1 ]
         ELSE [ row EXCEPT !.balance = @ - Price(item), !.double_jump = @ + 1 ]
    ELSE row

----------------------------------------------------------------------------
(* game_loop: one loop iteration *)

\* ActivateShield without the ownership test
ActivateShieldUnchecked(st, name) ==
    IF ~st.player.shield_active
    THEN LET ud == [ st.user_data EXCEPT !.shield = @ - 1 ]
         IN  [ st EXCEPT !.user_data = ud,
                         !.player = [ st.player EXCEPT !.shield_active = TRUE ],
                         !.shield_timer = SHIELD_TICKS,
                         !.users = db_update_user(st.users, name, ud) ]
    ELSE st

\* ActivateShield without the already-active test
ActivateShieldRestart(st, name) ==
    IF st.user_data.shield > 0
    THEN LET ud == [ st.user_data EXCEPT !.shield = @ - 1 ]
         IN  [ st EXCEPT !.user_data = ud,
                         !.player = [ st.player EXCEPT !.shield_active = TRUE ],
                         !.shield_timer = SHIELD_TICKS,
                         !.users = db_update_user(st.users, name, ud) ]
    ELSE st

\* ActivateShield paying the shield's price at use
ActivateShieldCharged(st, name) ==
    IF st.user_data.shield > 0 /\ ~st.player.shield_active
    THEN LET ud == [ st.user_data EXCEPT !.shield = @ - 1,
                                         !.balance = @ - SHIELD_COST ]
         IN  [ st EXCEPT !.user_data = ud,
                         !.player = [ st.player EXCEPT !.shield_active = TRUE ],
                         !.shield_timer = SHIELD_TICKS,
                         !.users = db_update_user(st.users, name, ud) ]
    ELSE st

\* K_x: activate the shield
ActivateShield(st, name) ==
    IF st.user_data.shield > 0 /\ ~st.player.shield_active
    THEN LET ud == [ st.user_data EXCEPT !.shield = @ - 1 ]
         IN  [ st EXCEPT !.user_data = ud,
                         !.player = [ st.player EXCEPT !.shield_active = TRUE ],
                         !.shield_timer = SHIELD_TICKS,
                         !.users = db_update_user(st.users, name, ud) ]
    ELSE st

\* OnSpace spending an owned double jump on a jump in the air
OnSpaceOwnedDoubleJump(st, ac) ==
    IF ac.game_over
    THEN [ st EXCEPT !.ret = IF ac.cheat_detected THEN "cheat" ELSE "score" ]
    ELSE IF ~st.player.on_ground /\ st.user_data.double_jump > 0
    THEN [ st EXCEPT !.player.vel_y = (BASE_JUMP_POWER * 8) \div 10,
                     !.user_data.double_jump = @ - 1 ]
    ELSE [ st EXCEPT !.player = Jump(st.player) ]

\* K_SPACE
OnSpace(st, ac) ==
    IF ac.game_over
    THEN [ st EXCEPT !.ret = IF ac.cheat_detected THEN "cheat" ELSE "score" ]
    ELSE [ st EXCEPT !.player = Jump(st.player) ]

\* OnEndDay handled like the acknowledgment key
OnEndDayAsScore(st) == [ st EXCEPT !.ret = "score" ]

\* K_d
OnEndDay(st) == [ st EXCEPT !.ret = "end_day" ]

\* one KEYDOWN event; events after a return are never handled
OnKey(st, k, ac, name) ==
    IF st.ret # "none" THEN st
    ELSE IF k = "SPACE" THEN OnSpace(st, ac)
    ELSE IF k = "X" THEN ActivateShield(st, name)
    ELSE OnEndDay(st)

\* for event in pygame.event.get()
RECURSIVE HandleEvents(_, _, _, _)
HandleEvents(evs, st, ac, name) ==
    IF evs = <<>> THEN st
    ELSE HandleEvents(Tail(evs), OnKey(st, Head(evs), ac, name), ac, name)

\* ShieldTick clearing the flag one frame after the timer reaches zero
ShieldTickLate(p, timer) ==
    IF p.shield_active
    THEN [ player |-> IF timer - 1 < 0 THEN [ p EXCEPT !.shield_active = FALSE ]
                      ELSE p,
           shield_timer |-> timer - 1 ]
    ELSE [ player |-> p, shield_timer |-> timer ]

\* the shield block of the loop body
ShieldTick(p, timer) ==
    IF p.shield_active
    THEN [ player |-> IF timer - 1 <= 0 THEN [ p EXCEPT !.shield_active = FALSE ]
                      ELSE p,
           shield_timer |-> timer - 1 ]
    ELSE [ player |-> p, shield_timer |-> timer ]

\* Collides with the shield test left out
CollidesThroughShield(p, obs) ==
    \E i \in 1..Len(obs) : CollideRect(PlayerRect(p), ObstacleRect(obs[i]))

\* Collides ending the run only when every active obstacle is hit
CollidesEvery(p, obs) ==
    /\ obs # <<>>
    /\ \A i \in 1..Len(obs) :
           ~p.shield_active /\ CollideRect(PlayerRect(p), ObstacleRect(obs[i]))

\* the collision loop over the obstacles still active
Collides(p, obs) ==
    \E i \in 1..Len(obs) :
        ~p.shield_active /\ CollideRect(PlayerRect(p), ObstacleRect(obs[i]))

\* DailyUpdate without the comparison against the recorded winner
DailyUpdateUnconditional(ud, winner, name, s) ==
    IF s > ud.daily_score
    THEN [ user_data |-> [ ud EXCEPT !.daily_score = s ],
           daily_winner |-> << name, s >> ]
    ELSE [ user_data |-> ud, daily_winner |-> winner ]

\* if score > user_data["daily_score"]: the row and the daily winner
DailyUpdate(ud, winner, name, s) ==
    IF s > ud.daily_score
    THEN [ user_data |-> [ ud EXCEPT !.daily_score = s ],
           daily_winner |-> IF winner = NoWinner \/ s > winner[2]
                            THEN << name, s >> ELSE winner ]
    ELSE [ user_data |-> ud, daily_winner |-> winner ]

\* Simulate with the shield destroying the obstacles it blocks
SimulateShieldDestroys(st, sz) ==
    LET p1     == PlayerUpdate(st.player)
        sh     == ShieldTick(p1, st.shield_timer)
        speed  == CurrentSpeed(score)
        timer  == spawn_timer + 1
        spawn  == timer > SpawnThreshold(score)
        obs1   == IF spawn THEN Append(obstacles, NewObstacle(sz)) ELSE obstacles
        moved  == [ i \in 1..Len(obs1) |-> ObstacleUpdate(obs1[i], speed) ]
        kept   == SelectSeq(moved, LAMBDA o : ~OffScreen(o))
        s1     == score + (Len(moved) - Len(kept))
        left   == IF sh.player.shield_active
                  THEN SelectSeq(kept, LAMBDA o :
                           ~CollideRect(PlayerRect(sh.player), ObstacleRect(o)))
                  ELSE kept
        daily  == DailyUpdate(st.user_data, daily_winner, username, s1)
    IN  [ player |-> sh.player, shield_timer |-> sh.shield_timer,
          spawn_timer |-> IF spawn THEN 0 ELSE timer, spawn |-> spawn,
          obstacles |-> left, score |-> s1,
          game_over |-> Collides(sh.player, left),
          user_data |-> daily.user_data, daily_winner |-> daily.daily_winner ]

\* the body of "if not game_over", with sz the size a spawned obstacle draws
Simulate(st, sz) ==
    LET p1     == PlayerUpdate(st.player)
        sh     == ShieldTick(p1, st.shield_timer)
        speed  == CurrentSpeed(score)
        timer  == spawn_timer + 1
        spawn  == timer > SpawnThreshold(score)
        obs1   == IF spawn THEN Append(obstacles, NewObstacle(sz)) ELSE obstacles
        moved  == [ i \in 1..Len(obs1) |-> ObstacleUpdate(obs1[i], speed) ]
        kept   == SelectSeq(moved, LAMBDA o : ~OffScreen(o))
        s1     == score + (Len(moved) - Len(kept))
        daily  == DailyUpdate(st.user_data, daily_winner, username, s1)
    IN  [ player |-> sh.player, shield_timer |-> sh.shield_timer,
          spawn_timer |-> IF spawn THEN 0 ELSE timer, spawn |-> spawn,
          obstacles |-> kept, score |-> s1,
          game_over |-> Collides(sh.player, kept),
          user_data |-> daily.user_data, daily_winner |-> daily.daily_winner ]

----------------------------------------------------------------------------
(* The program *)

\* the value of game_loop's user_data outside a session
NoRow == [ balance |-> 0, daily_score |-> 0, high_score |-> 0,
           shield |-> 0, double_jump |-> 0 ]

\* game_loop's locals as they are created at its top
FreshLocals ==
    /\ player' = NewPlayer
    /\ shield_timer' = 0
    /\ obstacles' = <<>>
    /\ spawn_timer' = 0
    /\ score' = 0
    /\ game_over' = FALSE
    /\ cheat_detected' = FALSE
    /\ elapsed' = 0
    /\ frame' = 0
    /\ spawned' = 0
    /\ idle' = 0

\* the module globals at import and main() after login_screen
Init ==
    /\ users = InitUsers
    /\ scores = <<>>
    /\ daily_pot = 0
    /\ daily_winner = NoWinner
    /\ owner_balance = 0
    /\ username \in Logins
    /\ pc = "menu"
    /\ result = NoResult
    /\ user_data = NoRow
    /\ player = NewPlayer
    /\ shield_timer = 0
    /\ obstacles = <<>>
    /\ spawn_timer = 0
    /\ score = 0
    /\ game_over = FALSE
    /\ cheat_detected = FALSE
    /\ elapsed = 0
    /\ tickMs = 0
    /\ events = <<>>
    /\ frame = 0
    /\ spawned = 0
    /\ idle = 0
    /\ sessions = 0
    /\ purchases = 0

\* main(): selection "jogar"; game_loop up to its while loop
GameLoopStart ==
    /\ pc = "menu"
    /\ LET row == users[username]
       IN  IF InsufficientFunds(row)
           THEN /\ result' = Outcome("insufficient", 0)
                /\ UNCHANGED << users, scores, daily_pot, daily_winner,
                                owner_balance, username, pc, user_data, player,
                                shield_timer, obstacles, spawn_timer, score,
                                game_over, cheat_detected, elapsed, tickMs,
                                events, frame, spawned, idle, sessions,
                                purchases >>
           ELSE /\ sessions < MaxSessions
                /\ sessions' = sessions + 1
                /\ user_data' = ChargeEntry(row)
                /\ users' = PersistEntry(users, username, user_data')
                /\ daily_pot' = daily_pot + PLAY_COST
                /\ \E t \in TickSteps : tickMs' = t
                /\ pc' = "game"
                /\ result' = NoResult
                /\ events' = <<>>
                /\ FreshLocals
                /\ UNCHANGED << scores, daily_winner, owner_balance, username,
                                purchases >>

\* main() on the value game_loop returned: kind is "score", "cheat" or "end_day"
Conclude(st, kind) ==
    /\ pc' = "menu"
    /\ result' = Outcome(kind, IF kind = "score" THEN score ELSE 0)
    /\ IF kind = "end_day"
       THEN LET eod == end_of_day(st.users, daily_pot, daily_winner, owner_balance)
            IN  /\ users' = eod.users
                /\ daily_pot' = eod.daily_pot
                /\ daily_winner' = eod.daily_winner
                /\ owner_balance' = eod.owner_balance
                /\ scores' = scores
       ELSE IF kind = "score"
       THEN /\ scores' = db_save_score(scores, username, score)
            /\ users' = SaveHighScore(st.users, username, score)
            /\ UNCHANGED << daily_pot, daily_winner, owner_balance >>
       ELSE /\ users' = st.users
            /\ UNCHANGED << scores, daily_pot, daily_winner, owner_balance >>
    /\ user_data' = NoRow
    /\ tickMs' = 0
    /\ FreshLocals
    /\ UNCHANGED << username, sessions, purchases >>

\* the key sequences a loop iteration can be given in the current state
FrameKeys ==
    IF ~game_over /\ (frame + 1) % KeyPeriod # 0 THEN { <<>> } ELSE KeySeqs

\* the sizes Obstacle() can draw in the current state; where no obstacle is
\* spawned nothing is drawn and one value stands for all
FrameSizes ==
    IF spawn_timer + 1 > SpawnThreshold(score) THEN ObsSizes
    ELSE { CHOOSE sz \in ObsSizes : TRUE }

\* one iteration of game_loop's while loop: the keys evs arrive, and an
\* obstacle spawned in this frame draws the size sz
Frame(evs, sz) ==
    /\ pc = "game"
    /\ game_over \/ frame < MaxFrames
    /\ evs \in FrameKeys
    /\ events' = evs
    /\ LET ms  == elapsed + tickMs
           ac  == AntiCheat(cheat_detected, game_over, score, ms)
           st0 == [ player |-> player, user_data |-> user_data,
                    shield_timer |-> shield_timer, users |-> users,
                    ret |-> "none" ]
           st  == HandleEvents(evs, st0, ac, username)
       IN  IF st.ret # "none"
           THEN Conclude(st, st.ret)
           ELSE /\ elapsed' = ms
                /\ frame' = frame + 1
                /\ cheat_detected' = ac.cheat_detected
                /\ users' = st.users
                /\ UNCHANGED << scores, daily_pot, owner_balance, username, pc,
                                result, tickMs, sessions, purchases >>
                /\ IF ac.game_over
                   THEN /\ idle < MaxIdle
                        /\ idle' = idle + 1
                        /\ game_over' = TRUE
                        /\ player' = st.player
                        /\ shield_timer' = st.shield_timer
                        /\ user_data' = st.user_data
                        /\ UNCHANGED << obstacles, spawn_timer, score,
                                        daily_winner, spawned >>
                   ELSE LET sim == Simulate(st, sz)
                        IN  /\ player' = sim.player
                            /\ shield_timer' = sim.shield_timer
                            /\ spawn_timer' = sim.spawn_timer
                            /\ obstacles' = sim.obstacles
                            /\ score' = sim.score
                            /\ game_over' = sim.game_over
                            /\ user_data' = sim.user_data
                            /\ daily_winner' = sim.daily_winner
                            /\ spawned' = IF sim.spawn THEN spawned + 1
                                          ELSE spawned
                            /\ idle' = idle

\* main(): selection "loja"; shop_screen: one click on a buy button
Purchase(item) ==
    /\ pc = "menu"
    /\ purchases < MaxPurchases
    /\ purchases' = purchases + 1
    /\ users' = db_update_user(users, username, Buy(users[username], item))
    /\ UNCHANGED << scores, daily_pot, daily_winner, owner_balance, username,
                    pc, result, user_data, player, shield_timer, obstacles,
                    spawn_timer, score, game_over, cheat_detected, elapsed,
                    tickMs, events, frame, spawned, idle, sessions >>

Next ==
    \/ GameLoopStart
    \/ \E evs \in FrameKeys, sz \in FrameSizes : Frame(evs, sz)
    \/ \E item \in Items : Purchase(item)

Spec == Init /\ [][Next]_vars

----------------------------------------------------------------------------
(* Store failures.  No call of db_update_user or db_save_score is inside a *)
(* try block: a write that raises (psycopg2 rolls its own transaction      *)
(* back) unwinds game_loop, shop_screen or end_of_day and main(), and the  *)
(* process ends with whatever the statements before the call have done.    *)

\* the event loop of one iteration, applied to the keys evs
FrameState(evs) ==
    HandleEvents(evs,
                 [ player |-> player, user_data |-> user_data,
                   shield_timer |-> shield_timer, users |-> users,
                   ret |-> "none" ],
                 AntiCheat(cheat_detected, game_over, score, elapsed + tickMs),
                 username)

\* the process ends on an uncaught exception, and its locals with it
Crash ==
    /\ pc' = "crashed"
    /\ user_data' = NoRow
    /\ tickMs' = 0
    /\ FreshLocals
    /\ UNCHANGED << username, result, sessions, purchases >>

\* game_loop: the db_update_user after the debit raises, before daily_pot
\* is raised
EntryWriteFails ==
    /\ pc = "menu"
    /\ ~InsufficientFunds(users[username])
    /\ sessions < MaxSessions
    /\ Crash
    /\ UNCHANGED << users, scores, daily_pot, daily_winner, owner_balance,
                    events >>

\* shop_screen: the db_update_user of a purchase raises
PurchaseWriteFails(item) ==
    /\ pc = "menu"
    /\ purchases < MaxPurchases
    /\ users[username].balance >= Price(item)
    /\ Crash
    /\ UNCHANGED << users, scores, daily_pot, daily_winner, owner_balance,
                    events >>

\* game_loop, K_x: the db_update_user of an activation raises; evs are the
\* keys of the iteration up to and with that K_x
ShieldWriteFails(evs) ==
    /\ pc = "game"
    /\ game_over \/ frame < MaxFrames
    /\ evs \in FrameKeys
    /\ evs # <<>>
    /\ evs[Len(evs)] = "X"
    /\ LET st == FrameState(SubSeq(evs, 1, Len(evs) - 1))
       IN  /\ st.ret = "none"
           /\ st.user_data.shield > 0
           /\ ~st.player.shield_active
           /\ users' = st.users
    /\ events' = evs
    /\ Crash
    /\ UNCHANGED << scores, daily_pot, daily_winner, owner_balance >>

\* main() on a score: db_save_score raises, or it succeeds and the
\* db_update_user of a new high score raises
SessionEndWriteFails(evs) ==
    /\ pc = "game"
    /\ evs \in FrameKeys
    /\ LET st == FrameState(evs)
       IN  /\ st.ret = "score"
           /\ users' = st.users
           /\ \/ scores' = scores
              \/ /\ score > st.users[username].high_score
                 /\ scores' = db_save_score(scores, username, score)
    /\ events' = evs
    /\ Crash
    /\ UNCHANGED << daily_pot, daily_winner, owner_balance >>

\* end_of_day: the db_update_user of the payout raises, or the final
\* UPDATE users SET daily_score = 0 raises after the payout and after
\* daily_pot and daily_winner were cleared
SettlementWriteFails(evs) ==
    /\ pc = "game"
    /\ evs \in FrameKeys
    /\ LET st   == FrameState(evs)
           paid == PayWinner(st.users, daily_pot, daily_winner, owner_balance)
       IN  /\ st.ret = "end_day"
           /\ \/ /\ daily_winner # NoWinner
                 /\ users' = st.users
                 /\ UNCHANGED << daily_pot, daily_winner, owner_balance >>
              \/ /\ users' = paid.users
                 /\ owner_balance' = paid.owner_balance
                 /\ daily_pot' = 0
                 /\ daily_winner' = NoWinner
    /\ events' = evs
    /\ scores' = scores
    /\ Crash

FaultNext ==
    \/ Next
    \/ EntryWriteFails
    \/ \E item \in Items : PurchaseWriteFails(item)
    \/ \E evs \in FrameKeys : ShieldWriteFails(evs)
    \/ \E evs \in FrameKeys : SessionEndWriteFails(evs)
    \/ \E evs \in FrameKeys : SettlementWriteFails(evs)

FaultSpec == Init /\ [][FaultNext]_vars

----------------------------------------------------------------------------
(* The anti-cheat check on its own: a loop iteration has just read the     *)
(* clock, and the check is applied to the score and the elapsed time.      *)

CheatInit ==
    /\ users = InitUsers
    /\ scores = <<>>
    /\ daily_pot = PLAY_COST
    /\ daily_winner = NoWinner
    /\ owner_balance = 0
    /\ username \in Logins
    /\ pc = "check"
    /\ result = NoResult
    /\ user_data = users[username]
    /\ player = NewPlayer
    /\ shield_timer = 0
    /\ obstacles = <<>>
    /\ spawn_timer = 0
    /\ score \in 0..MaxProbeScore
    /\ game_over \in BOOLEAN
    /\ cheat_detected = FALSE
    /\ elapsed \in ProbeElapsed
    /\ tickMs = 0
    /\ events = <<>>
    /\ frame = 1
    /\ spawned = 0
    /\ idle = 0
    /\ sessions = 1
    /\ purchases = 0

AntiCheatStep ==
    /\ pc = "check"
    /\ pc' = "checked"
    /\ LET ac == AntiCheat(cheat_detected, game_over, score, elapsed)
       IN  /\ cheat_detected' = ac.cheat_detected
           /\ game_over' = ac.game_over
    /\ UNCHANGED << users, scores, daily_pot, daily_winner, owner_balance,
                    username, result, user_data, player, shield_timer,
                    obstacles, spawn_timer, score, elapsed, tickMs, events,
                    frame, spawned, idle, sessions, purchases >>

CheatSpec == CheatInit /\ [][AntiCheatStep]_vars

----------------------------------------------------------------------------
(* The loop body on its own: a run stands between two iterations with any  *)
(* score up to MaxProbeScore and any spawn timer, one obstacle in mid       *)
(* screen, and one iteration simulates.  frame is what the slowest cadence  *)
(* needs for that many obstacles.                                           *)

MidObstacle == [ x |-> (WIDTH \div 2) * 100, width |-> 20, height |-> 20 ]

SpawnInit ==
    /\ username \in Logins
    /\ score \in 0..MaxProbeScore
    /\ spawn_timer \in 0..SPAWN_BASE
    /\ user_data = [ ChargeEntry(InitUsers[username])
                       EXCEPT !.daily_score = Max(@, score) ]
    /\ users = PersistEntry(InitUsers, username,
                            ChargeEntry(InitUsers[username]))
    /\ scores = <<>>
    /\ daily_pot = PLAY_COST
    /\ daily_winner = IF score > 0 THEN << username, score >> ELSE NoWinner
    /\ owner_balance = 0
    /\ pc = "probe"
    /\ result = NoResult
    /\ player = NewPlayer
    /\ shield_timer = 0
    /\ obstacles = << MidObstacle >>
    /\ spawned = score + 1
    /\ frame = (SPAWN_BASE + 1) * spawned + spawn_timer
    /\ tickMs = 16
    /\ elapsed = tickMs * frame
    /\ game_over = FALSE
    /\ cheat_detected = FALSE
    /\ events = <<>>
    /\ idle = 0
    /\ sessions = 1
    /\ purchases = 0

SpawnStep ==
    /\ pc = "probe"
    /\ pc' = "probed"
    /\ \E sz \in FrameSizes :
           LET sim == Simulate([ player |-> player, user_data |-> user_data,
                                 shield_timer |-> shield_timer,
                                 users |-> users, ret |-> "none" ], sz)
           IN  /\ player' = sim.player
               /\ shield_timer' = sim.shield_timer
               /\ spawn_timer' = sim.spawn_timer
               /\ obstacles' = sim.obstacles
               /\ score' = sim.score
               /\ game_over' = sim.game_over
               /\ user_data' = sim.user_data
               /\ daily_winner' = sim.daily_winner
               /\ spawned' = IF sim.spawn THEN spawned + 1 ELSE spawned
    /\ elapsed' = elapsed + tickMs
    /\ frame' = frame + 1
    /\ UNCHANGED << users, scores, daily_pot, owner_balance, username, result,
                    cheat_detected, tickMs, events, idle, sessions, purchases >>

SpawnSpec == SpawnInit /\ [][SpawnStep]_vars

----------------------------------------------------------------------------
(* Properties *)

\* a step in which game_loop returns to main()
Concludes == pc = "game" /\ pc' = "menu"

\* a step in which end_of_day runs
Settles == Concludes /\ result'.kind = "end_day"

\* C1: a session start with balance >= PLAY_COST debits exactly PLAY_COST from
\* the player's stored balance, the stored row already holds the debit when
\* the loop is entered (no frame has run), the daily pot grows by PLAY_COST,
\* and no other row, no other field of the row and no other ledger field
\* changes.
C1_EntryFeeCharged ==
    [][ (GameLoopStart /\ users[username].balance >= PLAY_COST) =>
            /\ pc' = "game"
            /\ frame' = 0
            /\ users' = [ users EXCEPT ![username].balance = @ - PLAY_COST ]
            /\ user_data' = users'[username]
            /\ daily_pot' = daily_pot + PLAY_COST
            /\ daily_winner' = daily_winner
            /\ owner_balance' = owner_balance
            /\ scores' = scores ]_vars

C1_Witness ==
    /\ pc = "game"
    /\ frame = 0
    /\ username = "ana"
    /\ users["ana"].balance = 15
    /\ daily_pot = PLAY_COST

\* C2: a session start with balance < PLAY_COST returns the insufficient-funds
\* outcome, leaves every row, the daily pot and the daily winner as they were,
\* and runs no frame.
C2_InsufficientFundsRefused ==
    [][ (GameLoopStart /\ users[username].balance < PLAY_COST) =>
            /\ result' = Outcome("insufficient", 0)
            /\ pc' = "menu"
            /\ frame' = 0
            /\ users' = users
            /\ daily_pot' = daily_pot
            /\ daily_winner' = daily_winner
            /\ owner_balance' = owner_balance ]_vars

C2_Witness ==
    /\ pc = "menu"
    /\ result.kind = "insufficient"
    /\ users[username].balance = 5
    /\ daily_pot = PLAY_COST

\* C3: a settlement with a daily winner raises the winner's stored balance by
\* floor(daily_pot / 2) and the owner balance by the rest of the pot, and
\* changes no other player's balance.
C3_SettlementSplit ==
    [][ (Settles /\ daily_winner # NoWinner) =>
            LET half == daily_pot \div 2
            IN  /\ users'[daily_winner[1]].balance =
                       users[daily_winner[1]].balance + half
                /\ owner_balance' = owner_balance + (daily_pot - half)
                /\ \A u \in Users \ { daily_winner[1] } :
                       users'[u].balance = users[u].balance ]_vars

C3_Witness ==
    /\ result.kind = "end_day"
    /\ owner_balance = 10
    /\ username = "ana"
    /\ users["ana"].balance = 15

\* C4: after every settlement the daily pot is 0, the daily winner is empty
\* and every player's stored best-score-today is 0; a settlement without a
\* winner changes no player's balance and not the owner balance.
C4_SettlementClears ==
    [][ Settles =>
            /\ daily_pot' = 0
            /\ daily_winner' = NoWinner
            /\ \A u \in Users : users'[u].daily_score = 0
            /\ daily_winner = NoWinner =>
                   /\ owner_balance' = owner_balance
                   /\ \A u \in Users : users'[u].balance = users[u].balance
       ]_vars

C4_Witness ==
    /\ result.kind = "end_day"
    /\ owner_balance = 0
    /\ sessions = 1
    /\ users["caio"].daily_score = 0

\* C5: once the cheat flag is set it stays set while the session runs, and a
\* cheat-flagged session earns nothing: with one entry fee in the pot the
\* winner on record can only be the running session's, so no step of a
\* flagged session may raise the player's balance.
C5_CheatEarnsNothing ==
    [][ (pc = "game" /\ cheat_detected) =>
            /\ pc' = "game" => cheat_detected'
            /\ daily_pot = PLAY_COST =>
                   users'[username].balance <= users[username].balance ]_vars

\* C6: a session whose cheat flag is set concludes with the cheat outcome.
C6_CheatOutcome ==
    [][ (Concludes /\ cheat_detected) => result'.kind = "cheat" ]_vars

\* C7: the anti-cheat check sets the flag exactly when elapsed > 0 and the
\* score exceeds 5 points per elapsed second: never at elapsed = 0, at score
\* 100 after 10 s, not at score 40 after 10 s, not at exactly 5 per second.
C7_AntiCheatThreshold ==
    pc = "checked" =>
        /\ cheat_detected <=> (elapsed > 0 /\ score * 1000 > 5 * elapsed)
        /\ elapsed = 0 => ~cheat_detected
        /\ (score = 100 /\ elapsed = 10000) => cheat_detected
        /\ (score = 40 /\ elapsed = 10000) => ~cheat_detected
        /\ (score = 50 /\ elapsed = 10000) => ~cheat_detected
        /\ (score = 1 /\ elapsed = 200) => ~cheat_detected
        /\ (score = 1 /\ elapsed = 199) => cheat_detected

C7_Witness ==
    /\ pc = "checked"
    /\ score = 100
    /\ elapsed = 10000
    /\ cheat_detected
    /\ game_over

\* C8: a session in game over by collision, its cheat flag not set, concludes
\* by appending the score it has to the score log, once.
C8_GameOverScoreLogged ==
    [][ (Concludes /\ game_over /\ ~cheat_detected /\ result'.kind # "cheat") =>
            scores' = Append(scores, [ username |-> username, score |-> score ])
       ]_vars

\* C9: a session that concludes with Score(n) leaves the player's stored high
\* score at max(previous high score, n), and no step lowers any player's
\* high score.
C9_HighScoreMax ==
    [][ /\ \A u \in Users : users'[u].high_score >= users[u].high_score
        /\ (Concludes /\ result'.kind = "score") =>
               /\ result'.n = score
               /\ users'[username].high_score =
                      Max(users[username].high_score, score) ]_vars

C9_Witness ==
    /\ result = Outcome("score", 1)
    /\ username = "ana"
    /\ users["ana"].high_score = 1

\* the key sequences that hold the EndDay key, and the place of the first
EndDaySeqs == { evs \in KeySeqs : \E i \in 1..Len(evs) : evs[i] = "D" }
FirstEndDay(evs) ==
    CHOOSE i \in 1..Len(evs) : evs[i] = "D" /\ \A j \in 1..(i - 1) : evs[j] # "D"

\* the loop reaches the EndDay key of evs: no SPACE before it finds the run
\* over (by an earlier collision or by this frame's anti-cheat check)
EndDayObserved(evs) ==
    \A j \in 1..(FirstEndDay(evs) - 1) :
        evs[j] = "SPACE" =>
            ~(game_over \/ CheatCheck(score, elapsed + tickMs))

\* C10: a frame that observes the EndDay key ends the session with the
\* end-day outcome; the settlement runs, the score log is not appended to and
\* the player's high score is not changed.
C10_EndDayDiscardsScore ==
    [][ /\ (pc = "game" /\ events' \in EndDaySeqs /\ EndDayObserved(events'))
               => Settles
        /\ Settles =>
               /\ daily_pot' = 0
               /\ daily_winner' = NoWinner
               /\ scores' = scores
               /\ users'[username].high_score = users[username].high_score
       ]_vars

C10_Witness ==
    /\ result.kind = "end_day"
    /\ username = "ana"
    /\ owner_balance = 5
    /\ sessions = 1
    /\ scores = <<>>
    /\ users["ana"].high_score = 0

\* a step in which the loop body under "if not game_over" runs
Simulates == pc = "game" /\ pc' = "game" /\ ~game_over /\ ~cheat_detected'

\* the key k is among the events the step's iteration handled
Pressed(k) == \E i \in 1..Len(events') : events'[i] = k

\* the active obstacles whose box the player's box overlaps
Overlaps(p, obs) ==
    { i \in 1..Len(obs) : CollideRect(PlayerRect(p), ObstacleRect(obs[i])) }

\* the active obstacles whose right edge this frame's move takes from >= 0 to
\* < 0 (hundredths of a pixel)
Crossed ==
    { i \in 1..Len(obstacles) :
        /\ obstacles[i].x + 100 * obstacles[i].width >= 0
        /\ obstacles[i].x - (BASE_OBSTACLE_SPEED + SPEED_PER_SCORE * score)
              + 100 * obstacles[i].width < 0 }

\* C11: a session that concludes with the cheat outcome appends nothing to the
\* score log, leaves the player's high score and balance as they were, and
\* leaves the pot holding the entry fee paid at its start: in a process's
\* first session the pot is PLAY_COST and the stored balance is the initial
\* one less PLAY_COST.
C11_CheatOutcomeKeepsPot ==
    [][ (Concludes /\ result'.kind = "cheat") =>
            /\ scores' = scores
            /\ users'[username].high_score = users[username].high_score
            /\ users'[username].balance = users[username].balance
            /\ daily_pot' = daily_pot
            /\ daily_pot >= PLAY_COST
            /\ (sessions = 1 /\ purchases = 0) =>
                   /\ daily_pot' = PLAY_COST
                   /\ users'[username].balance =
                          InitUsers[username].balance - PLAY_COST ]_vars

C11_Witness ==
    /\ pc = "menu"
    /\ result.kind = "cheat"
    /\ daily_pot = PLAY_COST
    /\ scores = <<>>
    /\ users[username].high_score = InitUsers[username].high_score
    /\ users[username].balance = InitUsers[username].balance - PLAY_COST

\* C12: while a session runs the score never decreases; a frame that
\* simulates raises it by exactly the number of active obstacles whose right
\* edge goes from >= 0 to < 0 in that frame, those obstacles are no longer
\* active afterwards, and a frame that does not simulate leaves it as it was.
C12_ScorePerObstacle ==
    [][ (pc = "game" /\ pc' = "game") =>
            /\ score' >= score
            /\ score' - score = IF Simulates THEN Cardinality(Crossed) ELSE 0
            /\ \A i \in 1..Len(obstacles') :
                   obstacles'[i].x + 100 * obstacles'[i].width >= 0
            /\ Simulates =>
                   Len(obstacles') + Cardinality(Crossed) \in
                       { Len(obstacles), Len(obstacles) + 1 } ]_vars

C12_Witness ==
    /\ pc = "game"
    /\ score = 2
    /\ ~game_over
    /\ obstacles # <<>>

\* C13: in a frame whose collision check finds an overlap while the shield is
\* active the run is not over, the score moves only by the obstacles passed,
\* and the shield timer and the owned shield count move only by the frame's
\* tick and by an activation made in this very frame; in a frame whose
\* collision check finds an overlap while the shield is not active the run is
\* over.
C13_ShieldBlocksCollision ==
    [][ (Simulates /\ Overlaps(player', obstacles') # {}) =>
            IF player'.shield_active
            THEN /\ ~game_over'
                 /\ score' - score = Cardinality(Crossed)
                 /\ IF player.shield_active
                    THEN /\ shield_timer' = shield_timer - 1
                         /\ user_data'.shield = user_data.shield
                         /\ users'[username].shield = users[username].shield
                    ELSE /\ shield_timer' = SHIELD_TICKS - 1
                         /\ user_data'.shield = user_data.shield - 1
                         /\ users'[username].shield = users[username].shield - 1
            ELSE game_over' ]_vars

C13_Witness ==
    /\ pc = "game"
    /\ frame > 0
    /\ ~game_over
    /\ player.shield_active
    /\ Overlaps(player, obstacles) # {}

\* C14: the owned shield count of every row and of the session's copy is
\* never negative; a step of a session lowers the stored count by one or
\* leaves it, it lowers it only when at least one charge is owned and the
\* shield is off, and then the shield is on; the shield goes from off to on
\* only together with that decrement.
C14_ShieldNeedsCharge ==
    [][ /\ \A u \in Users : users[u].shield >= 0 /\ users'[u].shield >= 0
        /\ user_data'.shield >= 0
        /\ pc = "game" =>
               LET own  == users[username].shield
                   own1 == users'[username].shield
               IN  /\ user_data.shield = own
                   /\ own1 \in { own, own - 1 }
                   /\ own1 = own - 1 =>
                          /\ own >= 1
                          /\ ~player.shield_active
                          /\ Pressed("X")
                          /\ pc' = "game" =>
                                 /\ player'.shield_active
                                 /\ user_data'.shield = own1
                   /\ (pc' = "game" /\ player'.shield_active
                                    /\ ~player.shield_active) =>
                          own1 = own - 1 ]_vars

C14_Witness ==
    /\ pc = "game"
    /\ events = << "X" >>
    /\ player.shield_active
    /\ shield_timer = SHIELD_TICKS - 1
    /\ username = "bia"
    /\ users["bia"].shield = InitUsers["bia"].shield - 1

\* C15: the activation key handled while the shield is already active
\* changes neither the stored rows nor the session's owned count, and does
\* not restart the timer: the flag and the ticks are what the frame's own
\* tick makes of them.
C15_ActivateWhileActive ==
    [][ (pc = "game" /\ pc' = "game" /\ player.shield_active /\ Pressed("X")) =>
            /\ users' = users
            /\ user_data'.shield = user_data.shield
            /\ IF Simulates
               THEN /\ shield_timer' = shield_timer - 1
                    /\ player'.shield_active = (shield_timer > 1)
               ELSE /\ shield_timer' = shield_timer
                    /\ player'.shield_active ]_vars

C15_Witness ==
    /\ pc = "game"
    /\ events = << "X" >>
    /\ player.shield_active
    /\ shield_timer < SHIELD_TICKS - 1
    /\ user_data.shield >= 1

\* C16: while a session runs, a grounded player has vertical velocity 0, one
\* extra-jump charge and stands on the ground line; the charge count is 0 or
\* 1 and the player is never below the ground line.
C16_GroundedInvariant ==
    pc = "game" =>
        /\ player.on_ground =>
               /\ player.vel_y = 0
               /\ player.jumps_available = 1
               /\ player.y = GroundY
        /\ player.jumps_available \in { 0, 1 }
        /\ player.y <= GroundY

C16_Witness ==
    /\ pc = "game"
    /\ username = "ana"
    /\ purchases = 0
    /\ score = 1
    /\ player.on_ground

\* C17: a frame in which a grounded player jumps leaves the player airborne,
\* rising at BASE_JUMP_POWER less the frame's gravity, with the extra jump
\* still available.
C17_GroundJumpKeepsExtra ==
    [][ (Simulates /\ player.on_ground /\ ~player'.on_ground) =>
            /\ player'.vel_y = BASE_JUMP_POWER + GRAVITY
            /\ player'.jumps_available = 1 ]_vars

\* C18: a jump key handled while the player is airborne after a ground jump
\* takes effect: the player rises at 0.8 x BASE_JUMP_POWER less the frame's
\* gravity, airborne, with no extra jump left.
C18_DoubleJump ==
    [][ (Simulates /\ ~player.on_ground /\ events' = << "SPACE" >>) =>
            /\ player'.vel_y = (BASE_JUMP_POWER * 8) \div 10 + GRAVITY
            /\ ~player'.on_ground
            /\ player'.jumps_available = 0 ]_vars

\* C19: a jump key handled while the player is airborne without a charge
\* changes nothing: position, velocity, grounded flag and charge count are
\* what the frame's physics alone makes of them, and the session goes on
\* with no outcome produced.
C19_AirborneJumpIgnored ==
    [][ (Simulates /\ ~player.on_ground /\ player.jumps_available = 0
                   /\ Pressed("SPACE")) =>
            LET v == player.vel_y + GRAVITY
                y == player.y + v
            IN  /\ result' = result
                /\ IF y > GroundY
                   THEN /\ player'.y = GroundY
                        /\ player'.vel_y = 0
                        /\ player'.on_ground
                        /\ player'.jumps_available = 1
                   ELSE /\ player'.y = y
                        /\ player'.vel_y = v
                        /\ ~player'.on_ground
                        /\ player'.jumps_available = 0 ]_vars

C19_Witness ==
    /\ pc = "game"
    /\ ~game_over
    /\ events = << "SPACE" >>
    /\ ~player.on_ground
    /\ player.jumps_available = 0
    /\ player.vel_y > 0

\* C20: a frame whose collision check finds the player's box over at least
\* one active obstacle's box, the shield not active, ends with the run over,
\* however many other obstacles are clear; and a frame's collision check ends
\* the run for no other reason.
C20_CollisionEndsRun ==
    [][ Simulates =>
            (game_over' <=>
                 /\ Cardinality(Overlaps(player', obstacles')) >= 1
                 /\ ~player'.shield_active) ]_vars

C20_Witness ==
    /\ pc = "game"
    /\ game_over
    /\ ~cheat_detected
    /\ ~player.shield_active
    /\ Cardinality(Overlaps(player, obstacles)) = 1
    /\ Len(obstacles) = 2

\* C21: a frame of a run that is already over leaves the player's position
\* and velocity, the obstacles, the spawn timer, the shield timer, the score,
\* the best score today and the daily winner as they were; the session
\* returns from a run that is over only on the acknowledgment or the EndDay
\* key.
C21_GameOverFreezes ==
    [][ (pc = "game" /\ game_over) =>
            /\ pc' = "game" =>
                   /\ player'.y = player.y
                   /\ player'.vel_y = player.vel_y
                   /\ obstacles' = obstacles
                   /\ spawn_timer' = spawn_timer
                   /\ shield_timer' = shield_timer
                   /\ score' = score
                   /\ user_data'.daily_score = user_data.daily_score
                   /\ daily_winner' = daily_winner
            /\ pc' = "menu" => Pressed("SPACE") \/ Pressed("D") ]_vars

\* C22: a frame that simulates leaves the best score today at the larger of
\* its old value and the score, replaces the daily winner by (player, score)
\* exactly when the score exceeds the best score today and no winner is
\* recorded or its score is strictly smaller, and otherwise leaves the
\* winner; no step other than a settlement removes the winner or lowers its
\* score.
C22_DailyWinnerStrict ==
    [][ /\ Simulates =>
               /\ user_data'.daily_score = Max(user_data.daily_score, score')
               /\ daily_winner' =
                      IF /\ score' > user_data.daily_score
                         /\ (daily_winner = NoWinner \/ score' > daily_winner[2])
                      THEN << username, score' >>
                      ELSE daily_winner
        /\ (daily_winner # NoWinner /\ ~Settles) =>
               /\ daily_winner' # NoWinner
               /\ daily_winner'[2] >= daily_winner[2] ]_vars

C22_Witness ==
    /\ pc = "game"
    /\ sessions = 2
    /\ score = 1
    /\ user_data.daily_score = 1
    /\ daily_winner = << username, 2 >>

\* C23: while a session runs with a score above 0, a daily winner is recorded
\* and its score is at least the session's score.
C23_WinnerCoversScore ==
    (pc = "game" /\ score > 0) =>
        /\ daily_winner # NoWinner
        /\ daily_winner[2] >= score

\* C24: between the entry-fee write of a session and its conclusion no row of
\* the users table is written.
C24_NoWriteDuringRun ==
    [][ (pc = "game" /\ pc' = "game") => users' = users ]_vars

\* C26: a purchase with balance below the price changes no row; with balance
\* at least the price it lowers the buyer's balance by the price, raises the
\* owned count of the purchased item by one and changes nothing else; every
\* stored balance, and the session's copy, is at least 0 in every state.
C26_PurchaseChecked ==
    [][ /\ \A u \in Users : users[u].balance >= 0 /\ users'[u].balance >= 0
        /\ user_data.balance >= 0 /\ user_data'.balance >= 0
        /\ \A item \in Items :
               Purchase(item) =>
                   LET row   == users[username]
                       price == IF item = "shield" THEN SHIELD_COST
                                ELSE DOUBLE_JUMP_COST
                   IN  IF row.balance < price
                       THEN users' = users
                       ELSE /\ users'[username].balance = row.balance - price
                            /\ users'[username].shield =
                                   row.shield + (IF item = "shield" THEN 1 ELSE 0)
                            /\ users'[username].double_jump =
                                   row.double_jump
                                       + (IF item = "double_jump" THEN 1 ELSE 0)
                            /\ users'[username].high_score = row.high_score
                            /\ users'[username].daily_score = row.daily_score
                            /\ \A u \in Users \ { username } :
                                   users'[u] = users[u] ]_vars

C26_Witness ==
    /\ pc = "menu"
    /\ purchases = 1
    /\ sessions = 0
    /\ username = "ana"
    /\ users["ana"].shield = InitUsers["ana"].shield + 1
    /\ users["ana"].balance = InitUsers["ana"].balance - SHIELD_COST

\* C27: no frame both makes the player jump and turns the shield on: of the
\* commands that arrive between two frames at most one takes effect.
C27_OneCommandPerFrame ==
    [][ Simulates =>
            ~ ( /\ player.on_ground /\ ~player'.on_ground
                /\ ~player.shield_active /\ player'.shield_active ) ]_vars

\* C28: from the entry-fee debit to the end of the run the player's balance,
\* stored and in the session's copy, does not change, and a conclusion with a
\* score or with the cheat outcome does not change it either: in a process's
\* first session, without a purchase, it is the initial balance less
\* PLAY_COST throughout.
C28_BalanceUnchangedInRun ==
    [][ pc = "game" =>
            /\ user_data.balance = users[username].balance
            /\ (sessions = 1 /\ purchases = 0) =>
                   users[username].balance =
                       InitUsers[username].balance - PLAY_COST
            /\ pc' = "game" =>
                   /\ users'[username].balance = users[username].balance
                   /\ user_data'.balance = user_data.balance
            /\ (pc' = "menu" /\ result'.kind \in { "score", "cheat" }) =>
                   \A u \in Users : users'[u].balance = users[u].balance ]_vars

C28_Witness ==
    /\ pc = "menu"
    /\ result = Outcome("score", 1)
    /\ sessions = 1
    /\ purchases = 0
    /\ users[username].balance = InitUsers[username].balance - PLAY_COST

\* C29: in a frame that simulates, with v the velocity the tick starts from
\* (BASE_JUMP_POWER when the frame's jump key took the player off the
\* ground), the velocity after the tick is 0 and y the ground line when
\* y + v + GRAVITY reaches the line, and v + GRAVITY, not reset, when the
\* tick leaves the player above the line.
C29_VelocityResetAtGround ==
    [][ Simulates =>
            LET v0 == IF Pressed("SPACE") /\ player.on_ground
                      THEN BASE_JUMP_POWER ELSE player.vel_y
                v  == v0 + GRAVITY
                y  == player.y + v
            IN  IF FloatGE(y, GroundY)
                THEN /\ player'.vel_y = 0
                     /\ player'.y = GroundY
                     /\ player'.on_ground
                ELSE /\ player'.vel_y = v
                     /\ player'.y = y
                     /\ ~player'.on_ground ]_vars

C29_Witness ==
    /\ pc = "game"
    /\ ~player.on_ground
    /\ player.vel_y = -(BASE_JUMP_POWER + GRAVITY)
    /\ player.y = GroundY

\* C30: no active obstacle has x + width < 0, before or after any step; after
\* a frame that simulates every active obstacle is an obstacle that was
\* active before, moved by the frame's speed, or the obstacle spawned in this
\* frame at the right edge: none comes back.
C30_NoOffscreenObstacle ==
    [][ /\ \A i \in 1..Len(obstacles) :
               obstacles[i].x + 100 * obstacles[i].width >= 0
        /\ \A i \in 1..Len(obstacles') :
               obstacles'[i].x + 100 * obstacles'[i].width >= 0
        /\ Simulates =>
               LET speed == BASE_OBSTACLE_SPEED + SPEED_PER_SCORE * score
               IN  \A i \in 1..Len(obstacles') :
                       \/ \E j \in 1..Len(obstacles) :
                              /\ j \notin Crossed
                              /\ obstacles'[i] =
                                     [ obstacles[j] EXCEPT !.x = @ - speed ]
                       \/ /\ i = Len(obstacles')
                          /\ spawn_timer' = 0
                          /\ obstacles'[i].x = 100 * WIDTH - speed ]_vars

C30_Witness ==
    /\ pc = "game"
    /\ score = 1
    /\ Len(obstacles) = 2
    /\ spawn_timer = 0

\* C25: a step in which a store write fails leaves the daily pot, the daily
\* winner, the owner balance and every stored balance as they were before
\* the action began.
C25_FailedWriteAborts ==
    [][ (pc # "crashed" /\ pc' = "crashed") =>
            /\ daily_pot' = daily_pot
            /\ daily_winner' = daily_winner
            /\ owner_balance' = owner_balance
            /\ \A u \in Users : users'[u].balance = users[u].balance ]_vars

\* C31: a frame that simulates raises the spawn timer by one; when the raised
\* timer exceeds max(60, 90 - floor(score / 2)), with the score the frame
\* starts from, exactly one obstacle is constructed, it is the last of the
\* active obstacles and stands one move left of the right edge, and the timer
\* is 0; otherwise none is constructed and the timer keeps the raised value.
\* Every active obstacle is 20..50 wide and 20..70 high.
C31_SpawnCadence ==
    [][ (Simulates \/ (pc = "probe" /\ pc' = "probed")) =>
        LET t     == spawn_timer + 1
            half  == 90 - score \div 2
            limit == IF half >= 60 THEN half ELSE 60
            n     == Len(obstacles')
        IN  /\ IF t > limit
               THEN /\ spawn_timer' = 0
                    /\ spawned' = spawned + 1
                    /\ n = Len(obstacles) + 1 - (score' - score)
                    /\ n > 0
                    /\ obstacles'[n].x = WIDTH * 100 - CurrentSpeed(score)
               ELSE /\ spawn_timer' = t
                    /\ spawned' = spawned
                    /\ n = Len(obstacles) - (score' - score)
            /\ \A i \in 1..n : /\ obstacles'[i].width \in 20..50
                                /\ obstacles'[i].height \in 20..70 ]_vars

\* a run at score 60 whose timer stood at 60 has spawned: the floor of the
\* threshold decided
C31_Witness ==
    /\ pc = "probed"
    /\ score = SPAWN_MIN
    /\ spawn_timer = 0
    /\ spawned = score + 2
    /\ frame = (SPAWN_BASE + 1) * (spawned - 1) + SPAWN_MIN + 1
    /\ Len(obstacles) = 2
    /\ obstacles[2].width = 50

\* a frame that simulates with the shield on, or turns it on
ShieldFrame == Simulates /\ (player.shield_active \/ player'.shield_active)

\* the ticks the frame's shield block starts from
ShieldTicksBefore == IF player.shield_active THEN shield_timer ELSE SHIELD_TICKS

\* the number of the frame counted from the activation frame (1) on
ShieldFrameNo == SHIELD_TICKS - shield_timer'

\* C32 (as claimed): a frame that simulates with the shield on lowers the
\* remaining ticks by one, and the shield is on at the collision check of
\* each of the SHIELD_TICKS = 120 frames counted from the activation frame.
C32_ShieldCoversDuration ==
    [][ ShieldFrame =>
        /\ shield_timer' = ShieldTicksBefore - 1
        /\ ShieldFrameNo <= SHIELD_TICKS => player'.shield_active ]_vars

\* C32 (amended): a frame that simulates with the shield on lowers the
\* remaining ticks by one, and the shield is on at its collision check exactly
\* when ticks remain after that: it covers the collision checks of the
\* SHIELD_TICKS - 1 = 119 frames counted from the activation frame and is off at
\* the check of the 120th.
C32_ShieldCoversTicksLeft ==
    [][ ShieldFrame =>
        /\ shield_timer' = ShieldTicksBefore - 1
        /\ ShieldFrameNo \in 1..SHIELD_TICKS
        /\ player'.shield_active <=> ShieldFrameNo <= SHIELD_TICKS - 1 ]_vars

\* bia turned the shield on in the first key frame, frame KeyPeriod; the
\* 120th frame counted from there has just cleared it
C32_Witness ==
    /\ pc = "game"
    /\ username = "bia"
    /\ ~game_over
    /\ user_data.shield = InitUsers["bia"].shield - 1
    /\ frame = KeyPeriod + SHIELD_TICKS - 1
    /\ shield_timer = 0
    /\ ~player.shield_active

\* C33: a frame that simulates writes to best-score-today and to the daily
\* winner only a score on which the anti-cheat check, applied to that score
\* and the frame's clock reading, does not fire.
C33_AntiCheatBeforeLedger ==
    [][ (Simulates /\ CheatCheck(score', elapsed')) =>
        /\ user_data'.daily_score = user_data.daily_score
        /\ daily_winner' = daily_winner ]_vars

\* C34: a frame of a run that is over (by an earlier collision, or by the
\* anti-cheat check of this or an earlier frame) and goes on leaves the owned
\* shield count, the shield flag and the users table as they were.
C34_ShieldInertInGameOver ==
    [][ (pc = "game" /\ pc' = "game" /\ ~Simulates) =>
        /\ user_data'.shield = user_data.shield
        /\ player'.shield_active = player.shield_active
        /\ users' = users ]_vars

\* the owned double-jump counts the logged-in player's account is compared
\* with: one more than it owns, and none if it owns any
DoubleJumpCounts ==
    { 0, users[username].double_jump + 1 } \ { users[username].double_jump }

\* the state of the event loop for an account that owns n double jumps and
\* is the same otherwise
WithDoubleJump(st, n) ==
    [ st EXCEPT !.user_data.double_jump = n,
                !.users[username].double_jump = n ]

C36_ObstaclesAccounted ==
    pc = "game" => score + Len(obstacles) = spawned

\* three obstacles were constructed: two have scored and one is active
C36_Witness ==
    /\ pc = "game"
    /\ spawned = 3
    /\ score = 2
    /\ Len(obstacles) = 1

RECURSIVE Balances(_, _)
Balances(db, S) ==
    IF S = {} THEN 0
    ELSE LET u == CHOOSE x \in S : TRUE
         IN  db[u].balance + Balances(db, S \ {u})

\* all credits: the players' balances, the daily pot and the owner balance
Credits(db, pot, owner) == Balances(db, DOMAIN db) + pot + owner

\* C38: no step of the program raises the sum of all player balances, the
\* daily pot and the owner balance; a session start that charges the entry fee
\* and a settlement that finds a daily winner leave the sum as it was.
C38_NoCreditCreated ==
    [][ LET before == Credits(users, daily_pot, owner_balance)
            after  == Credits(users', daily_pot', owner_balance')
        IN  /\ after <= before
            /\ (pc = "menu" /\ pc' = "game") => after = before
            /\ (Settles /\ daily_winner # NoWinner) => after = before ]_vars

\* a settlement has paid a winner and the owner, no purchase was made, and
\* the credits are those the process started with
C38_Witness ==
    /\ pc = "menu"
    /\ result.kind = "end_day"
    /\ owner_balance > 0
    /\ daily_pot = 0
    /\ purchases = 0
    /\ users # InitUsers
    /\ Credits(users, daily_pot, owner_balance) = Credits(InitUsers, 0, 0)

\* the frames of a jump arc, the jump frame and the landing frame included:
\* gravity takes the velocity from BASE_JUMP_POWER back to -BASE_JUMP_POWER
AirFrames == (-2 * BASE_JUMP_POWER) \div GRAVITY

\* the ticks an airborne player p has made since leaving the ground
AirTicks(p) == (p.vel_y - BASE_JUMP_POWER) \div GRAVITY

\* C39: while the run is not over, a player who leaves the ground is on the
\* ground again within 40 frames: the frame of the jump leaves the player one
\* tick into the air, every later frame that simulates adds one tick, the
\* player is never more than 39 ticks into the air, and the frame after the
\* 39th lands with y exactly on the ground line and the velocity zero.
C39_AirborneLands ==
    [][ Simulates =>
        /\ (player.on_ground /\ ~player'.on_ground) => AirTicks(player') = 1
        /\ ~player.on_ground =>
              IF AirTicks(player) < AirFrames - 1
              THEN /\ ~player'.on_ground
                   /\ AirTicks(player') = AirTicks(player) + 1
              ELSE /\ player'.on_ground
                   /\ player'.y = GroundY
                   /\ player'.vel_y = 0
        /\ ~player'.on_ground =>
              /\ AirTicks(player') \in 1..(AirFrames - 1)
              /\ AirFrames = 40
              /\ player'.y <= GroundY ]_vars

\* ana, who owns no shield, jumped the first obstacle in the key frame
\* 7 * KeyPeriod and is on the ground again 40 frames later
C39_Witness ==
    /\ pc = "game"
    /\ username = "ana"
    /\ purchases = 0
    /\ ~game_over
    /\ score = 0
    /\ frame = 7 * KeyPeriod + AirFrames - 1
    /\ player.on_ground
    /\ player.y = GroundY
    /\ player.vel_y = 0

====
